---- MODULE Spec2Model ----
(***************************************************************************)
(* Live match scoring of the volleyball tournament manager: the match      *)
(* record's scoring fields and the mutations that write them (startMatch,  *)
(* addPoint, undoPoint, endMatch of the scoring module; updateMatchStatus  *)
(* of the matches module), guarded by requireOrgRole.                      *)
(***************************************************************************)
EXTENDS Integers, Sequences, FiniteSets, TLC

VARIABLES
    status,         \* matches.status
    scoringFormat,  \* matches.scoringFormat, "none" when the optional field is absent
    score,          \* matches.score as an optional: <<>> absent, <<record>> present
    pointHistory,   \* matches.pointHistory as an optional: <<>> absent, <<sequence>> present
    last,           \* the last call: operation, caller, arguments, its error ("" = accepted)
                    \* and, for a query, the value it returned
    pre,            \* the match record as it was when the last call began
    steps,          \* number of calls so far
    txns            \* addPoint calls in flight: the document each has read and its outcome

vars == <<status, scoringFormat, score, pointHistory, last, pre, steps, txns>>

\* Number of calls explored from each initial match record.
MaxSteps == 3

----------------------------------------------------------------------------
\* Optional fields (v.optional): absent or holding one value.

Absent == <<>>

Some(x) == <<x>>

IsPresent(o) == o # <<>>

Val(o) == o[1]

----------------------------------------------------------------------------
\* Domains

Sides == {"home", "away"}

Statuses == {"scheduled", "in_progress", "completed"}

Formats == {"standard", "avp_beach"}

\* Callers: no session, a signed-in user without membership in the match's
\* organization, and members holding each of the three roles.
Callers == {"anonymous", "outsider", "owner", "admin", "scorer"}

OrgRoles == {"owner", "admin", "scorer"}

\* The id of the stored match and an id that resolves to no document.
TheMatch == "m1"

MatchIds == {"m1", "m0"}

\* The (caller, matchId) pairs of the calls explored: every caller on the
\* stored match; on the unknown id one caller that would pass every role
\* check and one that would pass none.
Requests == (Callers \X {"m1"}) \cup ({"owner", "anonymous"} \X {"m0"})

ScoringRoles == <<"owner", "admin", "scorer">>

ManagerRoles == <<"owner", "admin">>

----------------------------------------------------------------------------
\* lib/orgAuth.ts

getAuthUserId(caller) == IF caller = "anonymous" THEN Absent ELSE Some(caller)

getUserOrgMembership(caller) ==
    IF ~IsPresent(getAuthUserId(caller)) THEN Absent
    ELSE IF caller \in OrgRoles THEN Some([role |-> caller])
    ELSE Absent

requireOrgMembership(caller) ==
    IF ~IsPresent(getAuthUserId(caller)) THEN "Not authenticated"
    ELSE IF ~IsPresent(getUserOrgMembership(caller))
         THEN "You are not a member of this organization"
    ELSE ""

RECURSIVE Join(_)
Join(roles) ==
    IF Len(roles) = 0 THEN ""
    ELSE IF Len(roles) = 1 THEN roles[1]
    ELSE roles[1] \o ", " \o Join(Tail(roles))

Includes(roles, r) == \E i \in 1..Len(roles) : roles[i] = r

requireOrgRole(caller, allowedRoles) ==
    LET e == requireOrgMembership(caller) IN
    IF e # "" THEN e
    ELSE IF ~Includes(allowedRoles, Val(getUserOrgMembership(caller)).role)
         THEN "This action requires one of these roles: " \o Join(allowedRoles)
    ELSE ""

----------------------------------------------------------------------------
\* The scoring module's helpers

\* the rule table with three sets to win in both formats
getScoringRules_three_sets_to_win(format) ==
    IF format = "standard"
    THEN [setsToWin |-> 3, pointsPerSet |-> 25, tiebreakerPoints |-> 15, maxSets |-> 5]
    ELSE [setsToWin |-> 3, pointsPerSet |-> 21, tiebreakerPoints |-> 15, maxSets |-> 3]

getScoringRules(format) ==
    IF format = "standard"
    THEN [setsToWin |-> 3, pointsPerSet |-> 25, tiebreakerPoints |-> 15, maxSets |-> 5]
    ELSE [setsToWin |-> 2, pointsPerSet |-> 21, tiebreakerPoints |-> 15, maxSets |-> 3]

\* checkSetWin that ignores the lead
checkSetWin_no_lead(home, away, pointsToWin) ==
    IF home >= pointsToWin /\ home > away THEN "home"
    ELSE IF away >= pointsToWin /\ away > home THEN "away"
    ELSE "none"

\* checkSetWin without the two-point lead
checkSetWin_lead_of_one(home, away, pointsToWin) ==
    IF home >= pointsToWin /\ home - away >= 1 THEN "home"
    ELSE IF away >= pointsToWin /\ away - home >= 1 THEN "away"
    ELSE "none"

\* "none" stands for null
checkSetWin(home, away, pointsToWin) ==
    IF home >= pointsToWin /\ home - away >= 2 THEN "home"
    ELSE IF away >= pointsToWin /\ away - home >= 2 THEN "away"
    ELSE "none"

\* getPointsToWin without the tiebreaker
getPointsToWin_no_tiebreaker(currentSet, rules) == rules.pointsPerSet

getPointsToWin(currentSet, rules) ==
    LET isTiebreaker == currentSet = rules.maxSets IN
    IF isTiebreaker THEN rules.tiebreakerPoints ELSE rules.pointsPerSet

----------------------------------------------------------------------------
\* The match document as the handlers read it, and ctx.db.get.

Match ==
    [status |-> status, scoringFormat |-> scoringFormat,
     score |-> score, pointHistory |-> pointHistory]

dbGet(m, matchId) == IF matchId = TheMatch THEN Some(m) ELSE Absent

\* A handler's outcome: the thrown error ("" when it returned null) and the
\* document after the call.
Rejected(m, e) == [err |-> e, m |-> m]

Accepted(m) == [err |-> "", m |-> m]

InitialScore ==
    [currentSet |-> 1, home |-> 0, away |-> 0,
     setsWon |-> [home |-> 0, away |-> 0], setHistory |-> <<>>]

\* startMatch with the scoringFormat check moved behind the patch
startMatch_late_format_check(m, caller, matchId) ==
    IF ~IsPresent(dbGet(m, matchId)) THEN Rejected(m, "Match not found")
    ELSE LET a == requireOrgRole(caller, ScoringRoles) IN
    IF a # "" THEN Rejected(m, a)
    ELSE IF m.status # "scheduled" THEN Rejected(m, "Match has already started or completed")
    ELSE LET patched == [m EXCEPT !.status = "in_progress",
                                  !.score = Some(InitialScore),
                                  !.pointHistory = Some(<<>>)]
         IN IF m.scoringFormat = "none"
            THEN Rejected(patched, "Match does not have a scoring format set")
            ELSE Accepted(patched)

\* startMatch without the status guard
startMatch_restart(m, caller, matchId) ==
    IF ~IsPresent(dbGet(m, matchId)) THEN Rejected(m, "Match not found")
    ELSE LET a == requireOrgRole(caller, ScoringRoles) IN
    IF a # "" THEN Rejected(m, a)
    ELSE IF m.scoringFormat = "none" THEN Rejected(m, "Match does not have a scoring format set")
    ELSE Accepted([m EXCEPT !.status = "in_progress",
                            !.score = Some(InitialScore),
                            !.pointHistory = Some(<<>>)])

startMatch(m, caller, matchId) ==
    IF ~IsPresent(dbGet(m, matchId)) THEN Rejected(m, "Match not found")
    ELSE LET a == requireOrgRole(caller, ScoringRoles) IN
    IF a # "" THEN Rejected(m, a)
    ELSE IF m.status # "scheduled" THEN Rejected(m, "Match has already started or completed")
    ELSE IF m.scoringFormat = "none" THEN Rejected(m, "Match does not have a scoring format set")
    ELSE Accepted([m EXCEPT !.status = "in_progress",
                            !.score = Some(InitialScore),
                            !.pointHistory = Some(<<>>)])

\* logPoint that records the score after the point
logPoint_after_image(score0, side) ==
    [side |-> side, setNumber |-> score0.currentSet,
     homeScore |-> score0.home + (IF side = "home" THEN 1 ELSE 0),
     awayScore |-> score0.away + (IF side = "away" THEN 1 ELSE 0)]

\* logPoint that numbers the sets from 0
logPoint_zero_based(score0, side) ==
    [side |-> side, setNumber |-> Len(score0.setHistory),
     homeScore |-> score0.home, awayScore |-> score0.away]

\* addPoint: the entry pushed on pointHistory before the point is applied
logPoint(score0, side) ==
    [side |-> side, setNumber |-> score0.currentSet,
     homeScore |-> score0.home, awayScore |-> score0.away]

\* recordSet that counts the set and does not append it
recordSet_no_append(score1, setWinner) ==
    [score1 EXCEPT !.setsWon = [@ EXCEPT ![setWinner] = @ + 1]]

\* recordSet that appends the set and leaves setsWon alone
recordSet_no_increment(score1, setWinner) ==
    [score1 EXCEPT !.setHistory = Append(@, [home |-> score1.home, away |-> score1.away])]

\* addPoint: a won set is appended to setHistory and counted in setsWon
recordSet(score1, setWinner) ==
    [score1 EXCEPT !.setHistory = Append(@, [home |-> score1.home, away |-> score1.away]),
                   !.setsWon = [@ EXCEPT ![setWinner] = @ + 1]]

\* applyPoint that ends the match one set late
applyPoint_one_set_late(m, side) ==
    LET rules == getScoringRules(m.scoringFormat)
        score0 == Val(m.score)
        history0 == IF IsPresent(m.pointHistory) THEN Val(m.pointHistory) ELSE <<>>
        history1 == Append(history0, logPoint(score0, side))
        score1 == IF side = "home" THEN [score0 EXCEPT !.home = @ + 1]
                                   ELSE [score0 EXCEPT !.away = @ + 1]
        pointsToWin == getPointsToWin(score1.currentSet, rules)
        setWinner == checkSetWin(score1.home, score1.away, pointsToWin)
    IN
    IF setWinner # "none" THEN
      LET score2 == recordSet(score1, setWinner) IN
      IF score2.setsWon[setWinner] > rules.setsToWin
      THEN Accepted([m EXCEPT !.status = "completed",
                              !.score = Some(score2),
                              !.pointHistory = Some(history1)])
      ELSE Accepted([m EXCEPT !.score = Some([score2 EXCEPT !.currentSet = @ + 1,
                                                           !.home = 0, !.away = 0]),
                              !.pointHistory = Some(history1)])
    ELSE Accepted([m EXCEPT !.score = Some(score1), !.pointHistory = Some(history1)])

\* applyPoint that opens a set after the deciding one
applyPoint_opens_set_after_match(m, side) ==
    LET rules == getScoringRules(m.scoringFormat)
        score0 == Val(m.score)
        history0 == IF IsPresent(m.pointHistory) THEN Val(m.pointHistory) ELSE <<>>
        history1 == Append(history0, logPoint(score0, side))
        score1 == IF side = "home" THEN [score0 EXCEPT !.home = @ + 1]
                                   ELSE [score0 EXCEPT !.away = @ + 1]
        pointsToWin == getPointsToWin(score1.currentSet, rules)
        setWinner == checkSetWin(score1.home, score1.away, pointsToWin)
    IN
    IF setWinner # "none" THEN
      LET score2 == recordSet(score1, setWinner) IN
      IF score2.setsWon[setWinner] >= rules.setsToWin
      THEN Accepted([m EXCEPT !.status = "completed",
                              !.score = Some([score2 EXCEPT !.currentSet = @ + 1]),
                              !.pointHistory = Some(history1)])
      ELSE Accepted([m EXCEPT !.score = Some([score2 EXCEPT !.currentSet = @ + 1,
                                                           !.home = 0, !.away = 0]),
                              !.pointHistory = Some(history1)])
    ELSE Accepted([m EXCEPT !.score = Some(score1), !.pointHistory = Some(history1)])

\* applyPoint that looks for a set win before counting the point
applyPoint_checks_before_increment(m, side) ==
    LET rules == getScoringRules(m.scoringFormat)
        score0 == Val(m.score)
        history0 == IF IsPresent(m.pointHistory) THEN Val(m.pointHistory) ELSE <<>>
        history1 == Append(history0, logPoint(score0, side))
        score1 == IF side = "home" THEN [score0 EXCEPT !.home = @ + 1]
                                   ELSE [score0 EXCEPT !.away = @ + 1]
        pointsToWin == getPointsToWin(score1.currentSet, rules)
        setWinner == checkSetWin(score0.home, score0.away, pointsToWin)
    IN
    IF setWinner # "none" THEN
      LET score2 == recordSet(score1, setWinner) IN
      IF score2.setsWon[setWinner] >= rules.setsToWin
      THEN Accepted([m EXCEPT !.status = "completed",
                              !.score = Some(score2),
                              !.pointHistory = Some(history1)])
      ELSE Accepted([m EXCEPT !.score = Some([score2 EXCEPT !.currentSet = @ + 1,
                                                           !.home = 0, !.away = 0]),
                              !.pointHistory = Some(history1)])
    ELSE Accepted([m EXCEPT !.score = Some(score1), !.pointHistory = Some(history1)])

\* addPoint past its guards
applyPoint(m, side) ==
    LET rules == getScoringRules(m.scoringFormat)
        score0 == Val(m.score)
        history0 == IF IsPresent(m.pointHistory) THEN Val(m.pointHistory) ELSE <<>>
        history1 == Append(history0, logPoint(score0, side))
        score1 == IF side = "home" THEN [score0 EXCEPT !.home = @ + 1]
                                   ELSE [score0 EXCEPT !.away = @ + 1]
        pointsToWin == getPointsToWin(score1.currentSet, rules)
        setWinner == checkSetWin(score1.home, score1.away, pointsToWin)
    IN
    IF setWinner # "none" THEN
      LET score2 == recordSet(score1, setWinner) IN
      IF score2.setsWon[setWinner] >= rules.setsToWin
      THEN Accepted([m EXCEPT !.status = "completed",
                              !.score = Some(score2),
                              !.pointHistory = Some(history1)])
      ELSE Accepted([m EXCEPT !.score = Some([score2 EXCEPT !.currentSet = @ + 1,
                                                           !.home = 0, !.away = 0]),
                              !.pointHistory = Some(history1)])
    ELSE Accepted([m EXCEPT !.score = Some(score1), !.pointHistory = Some(history1)])

\* addPoint whose status guard only turns away a scheduled match
addPoint_open_after_end(m, caller, matchId, side) ==
    IF ~IsPresent(dbGet(m, matchId)) THEN Rejected(m, "Match not found")
    ELSE LET a == requireOrgRole(caller, ScoringRoles) IN
    IF a # "" THEN Rejected(m, a)
    ELSE IF m.status = "scheduled" THEN Rejected(m, "Match is not in progress")
    ELSE IF ~IsPresent(m.score) \/ m.scoringFormat = "none"
         THEN Rejected(m, "Match score not initialized")
    ELSE applyPoint(m, side)

addPoint(m, caller, matchId, side) ==
    IF ~IsPresent(dbGet(m, matchId)) THEN Rejected(m, "Match not found")
    ELSE LET a == requireOrgRole(caller, ScoringRoles) IN
    IF a # "" THEN Rejected(m, a)
    ELSE IF m.status # "in_progress" THEN Rejected(m, "Match is not in progress")
    ELSE IF ~IsPresent(m.score) \/ m.scoringFormat = "none"
         THEN Rejected(m, "Match score not initialized")
    ELSE applyPoint(m, side)

\* restorePreviousSet whose patch leaves pointHistory out
restorePreviousSet_keep_history(m, lastPoint, history1) ==
    LET score0 == Val(m.score) IN
    IF Len(score0.setHistory) = 0
    THEN Rejected(m, "Cannot undo: set history inconsistent")
    ELSE
      LET previousSet == score0.setHistory[Len(score0.setHistory)]
          setHistory == SubSeq(score0.setHistory, 1, Len(score0.setHistory) - 1)
          setsWon == IF previousSet.home > previousSet.away
                     THEN [score0.setsWon EXCEPT !.home = @ - 1]
                     ELSE [score0.setsWon EXCEPT !.away = @ - 1]
      IN Accepted([m EXCEPT
             !.score = Some([currentSet |-> lastPoint.setNumber,
                             home |-> lastPoint.homeScore,
                             away |-> lastPoint.awayScore,
                             setsWon |-> setsWon,
                             setHistory |-> setHistory])])

\* restorePreviousSet whose patch leaves currentSet where it is
restorePreviousSet_keeps_current_set(m, lastPoint, history1) ==
    LET score0 == Val(m.score) IN
    IF Len(score0.setHistory) = 0
    THEN Rejected(m, "Cannot undo: set history inconsistent")
    ELSE
      LET previousSet == score0.setHistory[Len(score0.setHistory)]
          setHistory == SubSeq(score0.setHistory, 1, Len(score0.setHistory) - 1)
          setsWon == IF previousSet.home > previousSet.away
                     THEN [score0.setsWon EXCEPT !.home = @ - 1]
                     ELSE [score0.setsWon EXCEPT !.away = @ - 1]
      IN Accepted([m EXCEPT
             !.score = Some([currentSet |-> score0.currentSet,
                             home |-> lastPoint.homeScore,
                             away |-> lastPoint.awayScore,
                             setsWon |-> setsWon,
                             setHistory |-> setHistory]),
             !.pointHistory = Some(history1)])

\* restorePreviousSet that always takes the set from home
restorePreviousSet_always_home(m, lastPoint, history1) ==
    LET score0 == Val(m.score) IN
    IF Len(score0.setHistory) = 0
    THEN Rejected(m, "Cannot undo: set history inconsistent")
    ELSE
      LET setHistory == SubSeq(score0.setHistory, 1, Len(score0.setHistory) - 1)
          setsWon == [score0.setsWon EXCEPT !.home = @ - 1]
      IN Accepted([m EXCEPT
             !.score = Some([currentSet |-> lastPoint.setNumber,
                             home |-> lastPoint.homeScore,
                             away |-> lastPoint.awayScore,
                             setsWon |-> setsWon,
                             setHistory |-> setHistory]),
             !.pointHistory = Some(history1)])

\* undoPoint: the popped point belongs to a previous set
restorePreviousSet(m, lastPoint, history1) ==
    LET score0 == Val(m.score) IN
    IF Len(score0.setHistory) = 0
    THEN Rejected(m, "Cannot undo: set history inconsistent")
    ELSE
      LET previousSet == score0.setHistory[Len(score0.setHistory)]
          setHistory == SubSeq(score0.setHistory, 1, Len(score0.setHistory) - 1)
          setsWon == IF previousSet.home > previousSet.away
                     THEN [score0.setsWon EXCEPT !.home = @ - 1]
                     ELSE [score0.setsWon EXCEPT !.away = @ - 1]
      IN Accepted([m EXCEPT
             !.score = Some([currentSet |-> lastPoint.setNumber,
                             home |-> lastPoint.homeScore,
                             away |-> lastPoint.awayScore,
                             setsWon |-> setsWon,
                             setHistory |-> setHistory]),
             !.pointHistory = Some(history1)])

\* undoWithinSet that restores the home score only
undoWithinSet_home_only(m, lastPoint, history1) ==
    Accepted([m EXCEPT
        !.score = Some([Val(m.score) EXCEPT !.home = lastPoint.homeScore]),
        !.pointHistory = Some(history1)])

\* undoWithinSet whose patch leaves pointHistory out
undoWithinSet_keep_history(m, lastPoint, history1) ==
    Accepted([m EXCEPT
        !.score = Some([Val(m.score) EXCEPT !.home = lastPoint.homeScore,
                                            !.away = lastPoint.awayScore])])

\* undoPoint: the popped point belongs to the current set
undoWithinSet(m, lastPoint, history1) ==
    Accepted([m EXCEPT
        !.score = Some([Val(m.score) EXCEPT !.home = lastPoint.homeScore,
                                            !.away = lastPoint.awayScore]),
        !.pointHistory = Some(history1)])

\* undoPoint that refuses to go back over a set boundary
undoPoint_within_set_only(m, caller, matchId) ==
    IF ~IsPresent(dbGet(m, matchId)) THEN Rejected(m, "Match not found")
    ELSE LET a == requireOrgRole(caller, ScoringRoles) IN
    IF a # "" THEN Rejected(m, a)
    ELSE IF m.status # "in_progress" THEN Rejected(m, "Match is not in progress")
    ELSE IF ~IsPresent(m.score) \/ ~IsPresent(m.pointHistory) \/ Len(Val(m.pointHistory)) = 0
         THEN Rejected(m, "No points to undo")
    ELSE
      LET history0 == Val(m.pointHistory)
          lastPoint == history0[Len(history0)]
          history1 == SubSeq(history0, 1, Len(history0) - 1)
      IN
      IF lastPoint.setNumber < Val(m.score).currentSet
      THEN Rejected(m, "Cannot undo: set history inconsistent")
      ELSE undoWithinSet(m, lastPoint, history1)

undoPoint(m, caller, matchId) ==
    IF ~IsPresent(dbGet(m, matchId)) THEN Rejected(m, "Match not found")
    ELSE LET a == requireOrgRole(caller, ScoringRoles) IN
    IF a # "" THEN Rejected(m, a)
    ELSE IF m.status # "in_progress" THEN Rejected(m, "Match is not in progress")
    ELSE IF ~IsPresent(m.score) \/ ~IsPresent(m.pointHistory) \/ Len(Val(m.pointHistory)) = 0
         THEN Rejected(m, "No points to undo")
    ELSE
      LET history0 == Val(m.pointHistory)
          lastPoint == history0[Len(history0)]
          history1 == SubSeq(history0, 1, Len(history0) - 1)
      IN
      IF lastPoint.setNumber < Val(m.score).currentSet
      THEN restorePreviousSet(m, lastPoint, history1)
      ELSE undoWithinSet(m, lastPoint, history1)

\* endMatch that admits the scoring roles
endMatch_scoring_roles(m, caller, matchId, winner) ==
    IF ~IsPresent(dbGet(m, matchId)) THEN Rejected(m, "Match not found")
    ELSE LET a == requireOrgRole(caller, ScoringRoles) IN
    IF a # "" THEN Rejected(m, a)
    ELSE IF m.status = "completed" THEN Rejected(m, "Match is already completed")
    ELSE Accepted([m EXCEPT !.status = "completed"])

\* endMatch that looks at the status before the caller's role
endMatch_status_check_first(m, caller, matchId, winner) ==
    IF ~IsPresent(dbGet(m, matchId)) THEN Rejected(m, "Match not found")
    ELSE IF m.status = "completed" THEN Rejected(m, "Match is already completed")
    ELSE LET a == requireOrgRole(caller, ManagerRoles) IN
    IF a # "" THEN Rejected(m, a)
    ELSE Accepted([m EXCEPT !.status = "completed"])

\* endMatch that awards the match to the winner argument
endMatch_records_winner(m, caller, matchId, winner) ==
    IF ~IsPresent(dbGet(m, matchId)) THEN Rejected(m, "Match not found")
    ELSE LET a == requireOrgRole(caller, ManagerRoles) IN
    IF a # "" THEN Rejected(m, a)
    ELSE IF m.status = "completed" THEN Rejected(m, "Match is already completed")
    ELSE IF winner # "none" /\ IsPresent(m.score) /\ m.scoringFormat # "none"
    THEN Accepted([m EXCEPT !.status = "completed",
                            !.score = Some([Val(m.score) EXCEPT !.setsWon[winner] =
                                            getScoringRules(m.scoringFormat).setsToWin])])
    ELSE Accepted([m EXCEPT !.status = "completed"])

\* winner is accepted by the validator and never read
endMatch(m, caller, matchId, winner) ==
    IF ~IsPresent(dbGet(m, matchId)) THEN Rejected(m, "Match not found")
    ELSE LET a == requireOrgRole(caller, ManagerRoles) IN
    IF a # "" THEN Rejected(m, a)
    ELSE IF m.status = "completed" THEN Rejected(m, "Match is already completed")
    ELSE Accepted([m EXCEPT !.status = "completed"])

\* matches module; its statusValidator admits only scheduled and completed
UpdatableStatuses == {"scheduled", "completed"}

updateMatchStatus(m, caller, matchId, newStatus) ==
    IF ~IsPresent(dbGet(m, matchId)) THEN Rejected(m, "Match not found")
    ELSE LET a == requireOrgRole(caller, ScoringRoles) IN
    IF a # "" THEN Rejected(m, a)
    ELSE Accepted([m EXCEPT !.status = newStatus])

\* The query: the returned projection (name, participants and _id are not
\* scoring fields and are left out), Absent for null.
\* getMatchScore whose canUndo only asks whether the log exists
getMatchScore_log_exists(m, matchId) ==
    IF ~IsPresent(dbGet(m, matchId)) THEN Absent
    ELSE Some([status |-> m.status,
               scoringFormat |-> m.scoringFormat,
               score |-> m.score,
               canUndo |-> IsPresent(m.pointHistory)])

getMatchScore(m, matchId) ==
    IF ~IsPresent(dbGet(m, matchId)) THEN Absent
    ELSE Some([status |-> m.status,
               scoringFormat |-> m.scoringFormat,
               score |-> m.score,
               canUndo |-> (IF IsPresent(m.pointHistory)
                            THEN Len(Val(m.pointHistory)) ELSE 0) > 0])

----------------------------------------------------------------------------
\* Initial match records.  A match is inserted by createMatch as scheduled,
\* without score and pointHistory.  To bring the late stages of a match
\* within MaxSteps calls, Init also holds records that the handlers above
\* produce from a scheduled match: startMatch followed by addPoint for each
\* side of a rally script.

Rally(n) == [i \in 1..(2 * n) |-> IF i % 2 = 1 THEN "home" ELSE "away"]

Run(side, n) == [i \in 1..n |-> side]

\* the points of a set that winner takes W to L (L <= W - 2)
SetScript(winner, W, L) == Rally(L) \o Run(winner, W - L)

\* the points that bring an open set to h-a
OpenScript(h, a) ==
    IF h >= a THEN Rally(a) \o Run("home", h - a) ELSE Rally(h) \o Run("away", a - h)

RECURSIVE Sets(_, _, _)
Sets(winner, n, W) ==
    IF n = 0 THEN <<>> ELSE SetScript(winner, W, W - 2) \o Sets(winner, n - 1, W)

RECURSIVE PlayAll(_, _, _, _)
PlayAll(m, sides, from, to) ==
    IF m.status # "in_progress" \/ from > to THEN m
    ELSE IF from = to THEN addPoint(m, "scorer", TheMatch, sides[from]).m
    ELSE LET mid == (from + to) \div 2
             half == PlayAll(m, sides, from, mid)
         IN PlayAll(half, sides, mid + 1, to)

Created(format) ==
    [status |-> "scheduled", scoringFormat |-> format,
     score |-> Absent, pointHistory |-> Absent]

\* open-set scores from which a set end is at most two points away, and the
\* score one point short of the tiebreaker threshold t
OpenScores(p, t) == {<<0, 0>>, <<p - 1, p - 2>>, <<p - 1, p - 1>>, <<t - 1, t - 2>>}

\* sets already won by a side: none, or one short of the match
SetCounts(rules) == {0, rules.setsToWin - 1}

Played(format, setsHome, setsAway, open) ==
    LET rules == getScoringRules(format)
        started == startMatch(Created(format), "scorer", TheMatch).m
        sides == Sets("home", setsHome, rules.pointsPerSet)
                 \o Sets("away", setsAway, rules.pointsPerSet)
                 \o OpenScript(open[1], open[2])
    IN PlayAll(started, sides, 1, Len(sides))

InitialMatches ==
    {Created(f) : f \in Formats \cup {"none"}}
    \cup
    UNION {UNION {UNION {
        {Played(f, sh, sa, o) :
            o \in OpenScores(getPointsToWin(sh + sa + 1, getScoringRules(f)),
                             getScoringRules(f).tiebreakerPoints)}
        : sa \in SetCounts(getScoringRules(f))}
        : sh \in SetCounts(getScoringRules(f))}
        : f \in Formats}

\* two addPoint calls that may be in flight together
Txns == {1, 2}

NotIssued == [pc |-> "idle", side |-> "none", snap |-> Absent, retries |-> 0, err |-> ""]

NoCall ==
    [op |-> "none", caller |-> "none", matchId |-> "none", arg |-> "none",
     err |-> "", view |-> Absent]

Init ==
    \E m \in InitialMatches :
        /\ status = m.status
        /\ scoringFormat = m.scoringFormat
        /\ score = m.score
        /\ pointHistory = m.pointHistory
        /\ last = NoCall
        /\ pre = m
        /\ steps = 0
        /\ txns = [t \in Txns |-> NotIssued]

----------------------------------------------------------------------------
\* One mutation call: the handler runs as one transaction on the document.

Call(op, caller, matchId, arg, result) ==
    /\ steps < MaxSteps
    /\ \E r \in {result} :
        /\ status' = r.m.status
        /\ scoringFormat' = r.m.scoringFormat
        /\ score' = r.m.score
        /\ pointHistory' = r.m.pointHistory
        /\ last' = [op |-> op, caller |-> caller, matchId |-> matchId, arg |-> arg,
                    err |-> r.err, view |-> Absent]
    /\ pre' = Match
    /\ steps' = steps + 1
    /\ UNCHANGED txns

StartMatch ==
    \E rq \in Requests : LET caller == rq[1] matchId == rq[2] IN
        Call("startMatch", caller, matchId, "none", startMatch(Match, caller, matchId))

AddPoint ==
    \E rq \in Requests, side \in Sides : LET caller == rq[1] matchId == rq[2] IN
        Call("addPoint", caller, matchId, side, addPoint(Match, caller, matchId, side))

UndoPoint ==
    \E rq \in Requests : LET caller == rq[1] matchId == rq[2] IN
        Call("undoPoint", caller, matchId, "none", undoPoint(Match, caller, matchId))

EndMatch ==
    \E rq \in Requests, winner \in Sides \cup {"none"} : LET caller == rq[1] matchId == rq[2] IN
        Call("endMatch", caller, matchId, winner, endMatch(Match, caller, matchId, winner))

UpdateMatchStatus ==
    \E rq \in Requests, newStatus \in UpdatableStatuses : LET caller == rq[1] matchId == rq[2] IN
        Call("updateMatchStatus", caller, matchId, newStatus,
             updateMatchStatus(Match, caller, matchId, newStatus))

\* a query that initialises the point log of a match that has none
GetMatchScore_initialises_log ==
    \E rq \in Requests : LET caller == rq[1] matchId == rq[2] IN
        /\ steps < MaxSteps
        /\ last' = [op |-> "getMatchScore", caller |-> caller, matchId |-> matchId,
                    arg |-> "none", err |-> "", view |-> getMatchScore(Match, matchId)]
        /\ pre' = Match
        /\ steps' = steps + 1
        /\ pointHistory' = IF IsPresent(pointHistory) THEN pointHistory ELSE Some(<<>>)
        /\ UNCHANGED <<status, scoringFormat, score, txns>>

\* The query runs no role check and patches nothing.
GetMatchScore ==
    \E rq \in Requests : LET caller == rq[1] matchId == rq[2] IN
        /\ steps < MaxSteps
        /\ last' = [op |-> "getMatchScore", caller |-> caller, matchId |-> matchId,
                    arg |-> "none", err |-> "", view |-> getMatchScore(Match, matchId)]
        /\ pre' = Match
        /\ steps' = steps + 1
        /\ UNCHANGED <<status, scoringFormat, score, pointHistory, txns>>

\* The scoring engine alone
Next == StartMatch \/ AddPoint \/ UndoPoint \/ EndMatch \/ GetMatchScore

Spec == Init /\ [][Next]_vars

\* Every backend mutation that writes the match document
NextAll == StartMatch \/ AddPoint \/ UndoPoint \/ EndMatch \/ GetMatchScore \/ UpdateMatchStatus

SpecAll == Init /\ [][NextAll]_vars

\* The scorer alone at the scoreboard: start, points and undos on the stored
\* match, in any order.
ScorerStarts ==
    Call("startMatch", "scorer", TheMatch, "none", startMatch(Match, "scorer", TheMatch))

ScorerAddsPoint ==
    \E side \in Sides :
        Call("addPoint", "scorer", TheMatch, side, addPoint(Match, "scorer", TheMatch, side))

ScorerUndoes ==
    Call("undoPoint", "scorer", TheMatch, "none", undoPoint(Match, "scorer", TheMatch))

NextScoring == ScorerStarts \/ ScorerAddsPoint \/ ScorerUndoes

SpecScoring == Init /\ [][NextScoring]_vars

\* The scorer undoes point after point until a call is refused; pre stays the
\* record the rewind began with and steps counts the undoPoint calls.
Rewind ==
    /\ last.err = ""
    /\ \E r \in {undoPoint(Match, "scorer", TheMatch)} :
        /\ status' = r.m.status
        /\ scoringFormat' = r.m.scoringFormat
        /\ score' = r.m.score
        /\ pointHistory' = r.m.pointHistory
        /\ last' = [op |-> "undoPoint", caller |-> "scorer", matchId |-> TheMatch,
                    arg |-> "none", err |-> r.err, view |-> Absent]
    /\ steps' = steps + 1
    /\ UNCHANGED <<pre, txns>>

SpecRewind == Init /\ [][Rewind]_vars

\* Two addPoint calls of the scorer in flight against the same match. Each
\* call reads the document, computes its patch from what it read, and commits.
\* pre stays the record both calls were issued against.

\* never finds a conflict: the patch computed from a stale read is written
ReadSetChanged_never(snap, now) == FALSE

\* the store's serialization: a call whose read document has changed since
\* it read it does not commit
ReadSetChanged(snap, now) == snap # now

\* ctx.db.get: the handler reads the match document
Begin(t) ==
    \E side \in Sides :
        /\ txns[t].pc = "idle"
        /\ txns' = [txns EXCEPT ![t] = [pc |-> "read", side |-> side, snap |-> Some(Match),
                                        retries |-> 0, err |-> ""]]
        /\ UNCHANGED <<status, scoringFormat, score, pointHistory, last, pre, steps>>

\* the document changed under the call: the handler runs again on a new read
Retry(t) ==
    /\ txns[t].pc = "read"
    /\ ReadSetChanged(Val(txns[t].snap), Match)
    /\ txns' = [txns EXCEPT ![t].snap = Some(Match), ![t].retries = @ + 1]
    /\ UNCHANGED <<status, scoringFormat, score, pointHistory, last, pre, steps>>

\* ctx.db.patch: the fields the handler computed from its read are written;
\* status is part of the patch only when the point completes the match
Commit(t) ==
    /\ txns[t].pc = "read"
    /\ ~ReadSetChanged(Val(txns[t].snap), Match)
    /\ \E r \in {addPoint(Val(txns[t].snap), "scorer", TheMatch, txns[t].side)} :
        /\ score' = IF r.err = "" THEN r.m.score ELSE score
        /\ pointHistory' = IF r.err = "" THEN r.m.pointHistory ELSE pointHistory
        /\ status' = IF r.err = "" /\ r.m.status # Val(txns[t].snap).status
                     THEN r.m.status ELSE status
        /\ txns' = [txns EXCEPT ![t].pc = "done", ![t].err = r.err]
        /\ last' = [op |-> "addPoint", caller |-> "scorer", matchId |-> TheMatch,
                    arg |-> txns[t].side, err |-> r.err, view |-> Absent]
    /\ UNCHANGED <<scoringFormat, pre, steps>>

NextConcurrent == \E t \in Txns : Begin(t) \/ Retry(t) \/ Commit(t)

SpecConcurrent == Init /\ [][NextConcurrent]_vars

----------------------------------------------------------------------------
TypeOK ==
    /\ status \in Statuses
    /\ scoringFormat \in Formats \cup {"none"}
    /\ Len(score) <= 1
    /\ Len(pointHistory) <= 1
    /\ steps \in 0..MaxSteps

----------------------------------------------------------------------------
\* Vocabulary of the properties

AcceptedCall(op) == last.op = op /\ last.err = ""

History(m) == IF IsPresent(m.pointHistory) THEN Val(m.pointHistory) ELSE <<>>

NotInProgress == "Match is not in progress"

\* the set-win predicate, written out
SetIsWon(home, away, pointsToWin) ==
    \/ home >= pointsToWin /\ home - away >= 2
    \/ away >= pointsToWin /\ away - home >= 2

----------------------------------------------------------------------------
\* C1, as stated: whenever an accepted addPoint is immediately followed by an
\* undoPoint call of a caller with a scoring role, score and pointHistory are
\* again what they were before the addPoint.
C1_RoundTripAlways ==
    [][(AcceptedCall("addPoint") /\ last'.op = "undoPoint"
        /\ last'.matchId = TheMatch /\ last'.caller \in OrgRoles)
       => (score' = pre.score /\ pointHistory' = pre.pointHistory)]_vars

\* C1, amended: whenever an accepted addPoint that left the match in progress
\* (the point left the set open, or closed a set without deciding the match)
\* is immediately followed by an undoPoint call of a caller with a scoring
\* role, the undoPoint is accepted and score and pointHistory are again what
\* they were before the addPoint.
C1_RoundTrip ==
    [][(AcceptedCall("addPoint") /\ status = "in_progress" /\ last'.op = "undoPoint"
        /\ last'.matchId = TheMatch /\ last'.caller \in OrgRoles)
       => (last'.err = "" /\ status' = "in_progress"
           /\ score' = pre.score /\ pointHistory' = pre.pointHistory)]_vars

\* an undoPoint was accepted on the record that addPoint produces from the
\* present one by closing a set
C1_Witness ==
    /\ AcceptedCall("undoPoint")
    /\ status = "in_progress"
    /\ Val(pre.score).currentSet > Val(score).currentSet
    /\ \E side \in Sides : addPoint(Match, "scorer", TheMatch, side).m = pre

\* C2: whenever score is present, setsWon.home + setsWon.away equals the
\* length of setHistory.
C2_SetsWonMatchesHistory ==
    IsPresent(score) =>
        Val(score).setsWon.home + Val(score).setsWon.away = Len(Val(score).setHistory)

\* an undoPoint has just taken back a set of a match with sets won by both sides
C2_Witness ==
    /\ AcceptedCall("undoPoint")
    /\ Len(Val(pre.score).setHistory) > Len(Val(score).setHistory)
    /\ Val(pre.score).setsWon.home > 0
    /\ Val(pre.score).setsWon.away > 0

\* C3, as stated: score is present if and only if status is in_progress or
\* completed.
C3_ScoreIffStarted ==
    IsPresent(score) <=> status \in {"in_progress", "completed"}

\* C4: once status is completed, no call of the engine changes status, score
\* or pointHistory, every addPoint and undoPoint call is rejected, and the
\* rejection of one that passes the match lookup and the role check is
\* "Match is not in progress".
C4_CompletedIsFrozen ==
    [][status = "completed" =>
        /\ status' = "completed"
        /\ score' = score
        /\ pointHistory' = pointHistory
        /\ last'.op \in {"addPoint", "undoPoint"} => last'.err # ""
        /\ (last'.op \in {"addPoint", "undoPoint"}
            /\ last'.matchId = TheMatch /\ last'.caller \in OrgRoles)
           => last'.err = NotInProgress]_vars

\* a point was refused on a match that a deciding addPoint had completed
C4_Witness ==
    /\ last.op = "addPoint"
    /\ last.err = NotInProgress
    /\ status = "completed"
    /\ IsPresent(score)
    /\ \E side \in Sides :
          Val(score).setsWon[side] >= getScoringRules(scoringFormat).setsToWin

\* C5, as stated: status changes only from scheduled to in_progress by
\* startMatch and from in_progress to completed by endMatch or addPoint.
C5_StatusSteps ==
    [][status' # status =>
        \/ status = "scheduled" /\ status' = "in_progress" /\ last'.op = "startMatch"
        \/ status = "in_progress" /\ status' = "completed"
           /\ last'.op \in {"endMatch", "addPoint"}]_vars

\* C6, as stated: once status is completed, no mutation changes it.
C6_CompletedIsTerminal ==
    [][status = "completed" => status' = "completed"]_vars

\* C7: an accepted addPoint appends exactly one entry to pointHistory and an
\* accepted undoPoint removes exactly the last one.
C7_HistoryStep ==
    /\ AcceptedCall("addPoint") =>
          /\ IsPresent(pointHistory)
          /\ Len(Val(pointHistory)) = Len(History(pre)) + 1
          /\ SubSeq(Val(pointHistory), 1, Len(History(pre))) = History(pre)
    /\ AcceptedCall("undoPoint") =>
          /\ IsPresent(pointHistory)
          /\ Len(Val(pointHistory)) = Len(History(pre)) - 1
          /\ Val(pointHistory) = SubSeq(History(pre), 1, Len(History(pre)) - 1)

\* an undoPoint has crossed a set boundary
C7_Witness ==
    /\ AcceptedCall("undoPoint")
    /\ Val(pre.score).currentSet > Val(score).currentSet
    /\ Len(History(pre)) > 1

\* C8: no score is negative, and the i-th entry of setHistory is a won set at
\* the threshold of set i under the match's scoring format.
C8_ScoresValid ==
    IsPresent(score) =>
        LET sc == Val(score)
            rules == getScoringRules(scoringFormat)
        IN /\ sc.home >= 0 /\ sc.away >= 0
           /\ sc.setsWon.home >= 0 /\ sc.setsWon.away >= 0
           /\ \A i \in 1..Len(sc.setHistory) :
                 SetIsWon(sc.setHistory[i].home, sc.setHistory[i].away,
                          getPointsToWin(i, rules))

\* the tiebreaker set has been played to its end past 15 points
C8_Witness ==
    /\ AcceptedCall("addPoint")
    /\ IsPresent(score)
    /\ Len(Val(score).setHistory) = getScoringRules(scoringFormat).maxSets
    /\ LET final == Val(score).setHistory[Len(Val(score).setHistory)]
       IN final.home + final.away > 28

\* C9: a rejected call leaves status, score, pointHistory and scoringFormat
\* as they were.
C9_RejectionWritesNothing ==
    last.err # "" => Match = pre

\* addPoint was refused on a scheduled match
C9_Witness ==
    /\ last.op = "addPoint"
    /\ last.err = NotInProgress
    /\ status = "scheduled"
    /\ ~IsPresent(score)

\* C10: a call of startMatch, addPoint or undoPoint by a caller whose role is
\* not owner, admin or scorer, and a call of endMatch by a caller whose role
\* is not owner or admin, is rejected and leaves the match as it was.
C10_RoleGate ==
    /\ (last.op \in {"startMatch", "addPoint", "undoPoint"}
        /\ last.caller \notin {"owner", "admin", "scorer"})
       => (last.err # "" /\ Match = pre)
    /\ (last.op = "endMatch" /\ last.caller \notin {"owner", "admin"})
       => (last.err # "" /\ Match = pre)

\* a scorer's endMatch on a match in progress was turned away by the role check
C10_Witness ==
    /\ last.op = "endMatch"
    /\ last.caller = "scorer"
    /\ last.matchId = TheMatch
    /\ last.err = "This action requires one of these roles: owner, admin"
    /\ status = "in_progress"

----------------------------------------------------------------------------
\* the rule table's setsToWin and maxSets, written out
SetsToWinOf(format) == IF format = "standard" THEN 3 ELSE 2

MaxSetsOf(format) == IF format = "standard" THEN 5 ELSE 3

\* the score startMatch writes, written out
FreshScore ==
    [currentSet |-> 1, home |-> 0, away |-> 0,
     setsWon |-> [home |-> 0, away |-> 0], setHistory |-> <<>>]

\* C11, as stated: a call by a scorer takes status to completed only when it
\* is an addPoint that brings a side's setsWon to setsToWin.
C11_ScorerCompletesOnlyByPoint ==
    [][(status # "completed" /\ status' = "completed" /\ last'.caller = "scorer")
       => /\ last'.op = "addPoint"
          /\ \E side \in Sides :
                Val(score').setsWon[side] >= SetsToWinOf(scoringFormat')]_vars

\* C12: an accepted startMatch acts on a scheduled match with a scoringFormat
\* and writes in_progress, the fresh score and an empty pointHistory; on a
\* match that is no longer scheduled every startMatch call is rejected and
\* changes nothing, with "Match has already started or completed" when it
\* passes the match lookup and the role check, and no call of the engine makes
\* the match scheduled again.
C12_StartOnce ==
    [][/\ (last'.op = "startMatch" /\ last'.err = "")
          => /\ status = "scheduled" /\ scoringFormat # "none"
             /\ status' = "in_progress"
             /\ score' = <<FreshScore>>
             /\ pointHistory' = << <<>> >>
             /\ scoringFormat' = scoringFormat
       /\ status # "scheduled"
          => /\ status' # "scheduled"
             /\ last'.op = "startMatch"
                => /\ last'.err # ""
                   /\ score' = score /\ pointHistory' = pointHistory /\ status' = status
             /\ (last'.op = "startMatch" /\ last'.matchId = TheMatch
                 /\ last'.caller \in OrgRoles)
                => last'.err = "Match has already started or completed"]_vars

\* a second startMatch was refused on a match with points on the board
C12_Witness ==
    /\ last.op = "startMatch"
    /\ last.err = "Match has already started or completed"
    /\ status = "in_progress"
    /\ Len(History(Match)) > 0
    /\ Val(score).home + Val(score).away > 0

----------------------------------------------------------------------------
\* the last call was an accepted addPoint; the in-set score it produced
PointScored == AcceptedCall("addPoint")

HomeAfter == Val(pre.score).home + (IF last.arg = "home" THEN 1 ELSE 0)

AwayAfter == Val(pre.score).away + (IF last.arg = "away" THEN 1 ELSE 0)

Leader == IF HomeAfter > AwayAfter THEN "home" ELSE "away"

\* the last accepted addPoint appended a set to setHistory
SetClosed ==
    Len(Val(score).setHistory) = Len(Val(pre.score).setHistory) + 1

\* the threshold of a set, from the rule table written out
ThresholdOf(format, currentSet) ==
    IF currentSet = MaxSetsOf(format) THEN 15
    ELSE IF format = "standard" THEN 25 ELSE 21

\* C14: an accepted undoPoint that pops an entry of an earlier set removes
\* the last setHistory entry, takes one set from the side with the higher
\* score in it, which is the side that scored the popped point, and restores
\* currentSet, home and away from the popped entry.
C14_CrossSetUndo ==
    (/\ AcceptedCall("undoPoint")
     /\ Len(History(pre)) > 0
     /\ History(pre)[Len(History(pre))].setNumber < Val(pre.score).currentSet)
    => LET ps == Val(pre.score)
           popped == History(pre)[Len(History(pre))]
           removed == ps.setHistory[Len(ps.setHistory)]
           loser == IF removed.home > removed.away THEN "home" ELSE "away"
       IN /\ Len(ps.setHistory) > 0
          /\ removed.home # removed.away
          /\ loser = popped.side
          /\ score = <<[currentSet |-> popped.setNumber,
                        home |-> popped.homeScore,
                        away |-> popped.awayScore,
                        setsWon |-> [ps.setsWon EXCEPT ![loser] = @ - 1],
                        setHistory |-> SubSeq(ps.setHistory, 1, Len(ps.setHistory) - 1)]>>
          /\ pointHistory = <<SubSeq(History(pre), 1, Len(History(pre)) - 1)>>
          /\ status = "in_progress"

\* the example of the cross-set undo: set 2 at 0-0 after 21-19 goes back to
\* set 1 at 20-19
C14_Witness ==
    /\ AcceptedCall("undoPoint")
    /\ Val(pre.score) = [currentSet |-> 2, home |-> 0, away |-> 0,
                         setsWon |-> [home |-> 1, away |-> 0],
                         setHistory |-> <<[home |-> 21, away |-> 19]>>]
    /\ History(pre)[Len(History(pre))] =
         [side |-> "home", setNumber |-> 1, homeScore |-> 20, awayScore |-> 19]
    /\ Val(score) = [currentSet |-> 1, home |-> 20, away |-> 19,
                     setsWon |-> [home |-> 0, away |-> 0], setHistory |-> <<>>]

\* C15: an accepted addPoint that wins a set appends the set and counts it;
\* when the winner thereby has setsToWin sets (3 standard, 2 avp_beach) the
\* match is completed in the same step, currentSet stays and home/away keep
\* the final score of the set; otherwise the match stays in progress,
\* currentSet grows by one and home and away are 0.
C15_DecidingSet ==
    (PointScored
     /\ SetIsWon(HomeAfter, AwayAfter,
                 ThresholdOf(pre.scoringFormat, Val(pre.score).currentSet)))
    => LET ps == Val(pre.score)
           s == Val(score)
       IN /\ s.setHistory = Append(ps.setHistory, [home |-> HomeAfter, away |-> AwayAfter])
          /\ s.setsWon = [ps.setsWon EXCEPT ![Leader] = @ + 1]
          /\ s.setsWon[Leader] <= SetsToWinOf(pre.scoringFormat)
          /\ IF s.setsWon[Leader] = SetsToWinOf(pre.scoringFormat)
             THEN /\ status = "completed"
                  /\ s.currentSet = ps.currentSet
                  /\ s.home = HomeAfter /\ s.away = AwayAfter
             ELSE /\ status = "in_progress"
                  /\ s.currentSet = ps.currentSet + 1
                  /\ s.home = 0 /\ s.away = 0

\* avp_beach: with setsWon 1-0 home wins a second set and the match ends in
\* that set
C15_Witness ==
    /\ PointScored
    /\ scoringFormat = "avp_beach"
    /\ Val(pre.score).setsWon = [home |-> 1, away |-> 0]
    /\ Val(score).setsWon = [home |-> 2, away |-> 0]
    /\ status = "completed"
    /\ Val(score).currentSet = Val(pre.score).currentSet
    /\ Val(score).home >= 21

\* C16: an accepted addPoint closes the set exactly when the score after the
\* point is a win at 15 in the set whose number is maxSets (5 standard, 3
\* avp_beach) and at 25 (standard) or 21 (avp_beach) in every earlier set.
C16_Threshold ==
    PointScored
    => (SetClosed <=>
          SetIsWon(HomeAfter, AwayAfter,
                   IF Val(pre.score).currentSet = MaxSetsOf(pre.scoringFormat) THEN 15
                   ELSE IF pre.scoringFormat = "standard" THEN 25 ELSE 21))

\* avp_beach set 3 at 14-13: a home point closes the set 15-13
C16_Witness ==
    /\ PointScored
    /\ scoringFormat = "avp_beach"
    /\ Val(pre.score).currentSet = 3
    /\ Val(pre.score).home = 14 /\ Val(pre.score).away = 13
    /\ last.arg = "home"
    /\ SetClosed
    /\ Val(score).setHistory[Len(Val(score).setHistory)] = [home |-> 15, away |-> 13]

\* C17: an accepted addPoint closes the set if and only if after the point
\* one side has at least pointsToWin points and leads by at least 2, however
\* high the score; a closed set is appended with its final score and an open
\* one keeps the incremented score.
C17_WinByTwo ==
    PointScored
    => LET ps == Val(pre.score)
           pointsToWin == getPointsToWin(ps.currentSet, getScoringRules(pre.scoringFormat))
           won == \E side \in Sides :
                     LET mine == IF side = "home" THEN HomeAfter ELSE AwayAfter
                         theirs == IF side = "home" THEN AwayAfter ELSE HomeAfter
                     IN mine >= pointsToWin /\ mine - theirs >= 2
       IN IF won
          THEN /\ SetClosed
               /\ Val(score).setHistory[Len(Val(score).setHistory)]
                    = [home |-> HomeAfter, away |-> AwayAfter]
          ELSE /\ Val(score).setHistory = ps.setHistory
               /\ Val(score).home = HomeAfter /\ Val(score).away = AwayAfter
               /\ Val(score).currentSet = ps.currentSet

\* standard, not the final set: 25-24 became 26-24 and the set was closed
C17_Witness ==
    /\ PointScored
    /\ scoringFormat = "standard"
    /\ Val(pre.score).currentSet < 5
    /\ Val(pre.score).home = 25 /\ Val(pre.score).away = 24
    /\ Len(History(pre)) > 0
    /\ History(pre)[Len(History(pre))].homeScore = 24
    /\ History(pre)[Len(History(pre))].awayScore = 24
    /\ SetClosed
    /\ Val(score).setHistory[Len(Val(score).setHistory)] = [home |-> 26, away |-> 24]

\* C20: an accepted endMatch sets status to completed and leaves score,
\* pointHistory and scoringFormat as they were; the record is the same for
\* every value of the winner argument.
C20_EndOnlySetsStatus ==
    AcceptedCall("endMatch")
    => /\ status = "completed"
       /\ score = pre.score
       /\ pointHistory = pre.pointHistory
       /\ scoringFormat = pre.scoringFormat
       /\ \A winner \in Sides \cup {"none"} :
             endMatch(pre, last.caller, last.matchId, winner) = Accepted(Match)

\* a match in progress that home leads was ended with winner away
C20_Witness ==
    /\ AcceptedCall("endMatch")
    /\ last.arg = "away"
    /\ pre.status = "in_progress"
    /\ Val(score).setsWon.home > Val(score).setsWon.away
    /\ Len(History(Match)) > 0

----------------------------------------------------------------------------
\* what getMatchScore answers for the match now
CanUndo == Val(getMatchScore(Match, TheMatch)).canUndo

\* an undoPoint of this caller would be accepted now
UndoAccepted(caller) == undoPoint(Match, caller, TheMatch).err = ""

\* C18, as stated: in every state canUndo is true exactly when an undoPoint
\* of a caller with a scoring role would be accepted.
C18_CanUndoAlways ==
    \A caller \in OrgRoles : CanUndo <=> UndoAccepted(caller)

\* C18, amended: while the match is in progress canUndo is true exactly when
\* an undoPoint of a caller with a scoring role would be accepted; in every
\* other status undoPoint is rejected whatever canUndo says; and the answer
\* of a getMatchScore call is the one for the record it left behind.
C18_CanUndoInProgress ==
    /\ status = "in_progress"
       => \A caller \in OrgRoles : CanUndo <=> UndoAccepted(caller)
    /\ status # "in_progress"
       => \A caller \in OrgRoles : ~UndoAccepted(caller)
    /\ (last.op = "getMatchScore" /\ last.matchId = TheMatch)
       => /\ IsPresent(last.view)
          /\ Val(last.view).canUndo = CanUndo
          /\ Val(last.view).canUndo = (Len(History(Match)) > 0)

\* getMatchScore answered canUndo = true for a match in progress with points
\* in its log, and an undo by the scorer would be accepted
C18_Witness ==
    /\ last.op = "getMatchScore" /\ last.matchId = TheMatch
    /\ status = "in_progress"
    /\ Val(last.view).canUndo
    /\ Len(History(Match)) > 0
    /\ UndoAccepted("scorer")

----------------------------------------------------------------------------
\* C13: from an in_progress record with n points in its log, each of the
\* first n undoPoint calls is accepted and removes exactly one point and at
\* most one closed set; after the n-th the record is the freshly started one;
\* the (n+1)-th is rejected with "No points to undo" and changes nothing.
C13_RewindToStart ==
    [][LET n == Len(History(pre)) IN
       pre.status = "in_progress"
       => /\ steps' <= n
             => /\ last'.err = ""
                /\ status' = "in_progress"
                /\ Len(Val(pointHistory')) = Len(Val(pointHistory)) - 1
                /\ Len(Val(pointHistory')) = n - steps'
                /\ Len(Val(score').setHistory) >= Len(Val(score).setHistory) - 1
          /\ steps' = n
             => /\ score' = <<FreshScore>>
                /\ pointHistory' = << <<>> >>
          /\ steps' = n + 1
             => /\ last'.err = "No points to undo"
                /\ score' = score /\ pointHistory' = pointHistory
                /\ status' = status]_vars

\* a match of more than a hundred points and two closed sets was undone to
\* the start, and the next undoPoint was refused
C13_Witness ==
    /\ pre.status = "in_progress"
    /\ Len(History(pre)) > 100
    /\ Len(Val(pre.score).setHistory) >= 2
    /\ steps = Len(History(pre)) + 1
    /\ last.op = "undoPoint"
    /\ last.err = "No points to undo"
    /\ score = <<FreshScore>>
    /\ pointHistory = << <<>> >>

----------------------------------------------------------------------------
\* two addPoint calls of the scorer run one after the other on record m
SerialOutcome(m, first, second) ==
    LET r1 == addPoint(m, "scorer", TheMatch, first)
        r2 == addPoint(r1.m, "scorer", TheMatch, second)
    IN [m |-> r2.m, errFirst |-> r1.err, errSecond |-> r2.err]

BothDone == \A t \in Txns : txns[t].pc = "done"

\* C19: when two addPoint calls issued against the same in_progress match
\* have both finished, the record and the two outcomes are those of running
\* the calls one after the other in one of the two orders: both points are
\* logged, or the second is rejected because the first completed the match.
C19_Serializable ==
    (BothDone /\ pre.status = "in_progress")
    => \E order \in {<<1, 2>>, <<2, 1>>} :
          LET o == SerialOutcome(pre, txns[order[1]].side, txns[order[2]].side) IN
          /\ Match = o.m
          /\ txns[order[1]].err = o.errFirst
          /\ txns[order[2]].err = o.errSecond
          /\ o.errFirst = ""
          /\ \/ /\ o.errSecond = ""
                /\ Len(History(Match)) = Len(History(pre)) + 2
             \/ /\ o.errSecond = NotInProgress
                /\ status = "completed"
                /\ Len(History(Match)) = Len(History(pre)) + 1

\* both calls read the same record, one had to run again, and both points
\* are in the log
C19_Witness ==
    /\ BothDone
    /\ pre.status = "in_progress"
    /\ \E t \in Txns : txns[t].retries > 0
    /\ Len(History(Match)) = Len(History(pre)) + 2
    /\ History(Match)[Len(History(Match))].homeScore
         + History(Match)[Len(History(Match))].awayScore
       = Val(pre.score).home + Val(pre.score).away + 1

----------------------------------------------------------------------------
\* the in-set score right after the point of a log entry
After(entry) ==
    [home |-> entry.homeScore + (IF entry.side = "home" THEN 1 ELSE 0),
     away |-> entry.awayScore + (IF entry.side = "away" THEN 1 ELSE 0)]

\* C21: every pointHistory entry holds the score right before its point:
\* one point for entry.side on top of it gives the next entry's score when
\* that entry is of the same set, the setHistory entry of the set when the
\* point closed it, and the current home/away when it is the last point of
\* the current set; the first entry of every set records 0-0.
C21_BeforeImageLog ==
    IsPresent(pointHistory)
    => LET h == Val(pointHistory)
           s == Val(score)
       IN \A i \in 1..Len(h) :
            /\ h[i].side \in Sides
            /\ (i = 1 \/ h[i - 1].setNumber # h[i].setNumber)
               => (h[i].homeScore = 0 /\ h[i].awayScore = 0)
            /\ (i < Len(h) /\ h[i + 1].setNumber = h[i].setNumber)
               => After(h[i]) = [home |-> h[i + 1].homeScore, away |-> h[i + 1].awayScore]
            /\ (i < Len(h) /\ h[i + 1].setNumber # h[i].setNumber)
               => /\ h[i].setNumber <= Len(s.setHistory)
                  /\ s.setHistory[h[i].setNumber] = After(h[i])
            /\ (i = Len(h) /\ h[i].setNumber = s.currentSet)
               => After(h[i]) = [home |-> s.home, away |-> s.away]
            /\ (i = Len(h) /\ h[i].setNumber # s.currentSet)
               => /\ h[i].setNumber <= Len(s.setHistory)
                  /\ s.setHistory[h[i].setNumber] = After(h[i])

\* a point was added in the second set or later; the log covers a closed set
\* and the open one
C21_Witness ==
    /\ PointScored
    /\ status = "in_progress"
    /\ Val(score).currentSet >= 2
    /\ Val(score).home + Val(score).away >= 2
    /\ History(Match)[Len(History(Match))].setNumber = Val(score).currentSet
    /\ History(Match)[1].setNumber = 1

\* C22: the setNumber values of pointHistory start at 1, never decrease and
\* grow by at most 1 from one entry to the next.
C22_SetNumbersAscend ==
    IsPresent(pointHistory)
    => LET h == Val(pointHistory) IN
       /\ Len(h) > 0 => h[1].setNumber = 1
       /\ \A i \in 1..(Len(h) - 1) :
             h[i + 1].setNumber \in {h[i].setNumber, h[i].setNumber + 1}

\* avp_beach at 1-1 in sets: the last point of set 2 was undone from set 3
\* and home scored instead; the log ends with the away point at 19-19 and the
\* new home point at 19-20
C22_Witness ==
    /\ PointScored
    /\ scoringFormat = "avp_beach"
    /\ Val(score).currentSet = 2
    /\ Val(score).home = 20 /\ Val(score).away = 20
    /\ Len(History(Match)) >= 2
    /\ History(Match)[Len(History(Match)) - 1] =
         [side |-> "away", setNumber |-> 2, homeScore |-> 19, awayScore |-> 19]
    /\ History(Match)[Len(History(Match))] =
         [side |-> "home", setNumber |-> 2, homeScore |-> 19, awayScore |-> 20]

----------------------------------------------------------------------------
\* C23: a getMatchScore call, by any caller, at any point between the other
\* calls, leaves every field of the match as it was and raises no error; for
\* an id that resolves to no match it returns null, and for the stored match
\* the fields of the record.
C23_QueryReadOnly ==
    [][last'.op = "getMatchScore"
       => /\ status' = status /\ scoringFormat' = scoringFormat
          /\ score' = score /\ pointHistory' = pointHistory
          /\ last'.err = ""
          /\ last'.matchId # TheMatch => last'.view = <<>>
          /\ last'.matchId = TheMatch
             => /\ Len(last'.view) = 1
                /\ last'.view[1].status = status
                /\ last'.view[1].score = score
                /\ last'.view[1].scoringFormat = scoringFormat]_vars

\* getMatchScore was called on an unknown match after a point had been
\* scored; it returned null and the record is the one the point left
C23_Witness ==
    /\ last.op = "getMatchScore"
    /\ last.matchId # TheMatch
    /\ last.view = <<>>
    /\ last.err = ""
    /\ steps >= 2
    /\ Match = pre
    /\ status = "in_progress"
    /\ Len(History(Match)) > 0

\* the mutating operations of the engine
Mutations == {"startMatch", "addPoint", "undoPoint", "endMatch"}

\* the rejection the order lookup, role, status, data gives a call on record m
FirstFailure(op, caller, matchId, m) ==
    IF matchId # TheMatch THEN "Match not found"
    ELSE IF caller = "anonymous" THEN "Not authenticated"
    ELSE IF caller = "outsider" THEN "You are not a member of this organization"
    ELSE IF op = "endMatch" /\ caller \notin {"owner", "admin"}
         THEN "This action requires one of these roles: owner, admin"
    ELSE IF op = "startMatch" /\ m.status # "scheduled"
         THEN "Match has already started or completed"
    ELSE IF op \in {"addPoint", "undoPoint"} /\ m.status # "in_progress"
         THEN "Match is not in progress"
    ELSE IF op = "endMatch" /\ m.status = "completed"
         THEN "Match is already completed"
    ELSE IF op = "startMatch" /\ m.scoringFormat = "none"
         THEN "Match does not have a scoring format set"
    ELSE IF op = "addPoint" /\ (m.score = <<>> \/ m.scoringFormat = "none")
         THEN "Match score not initialized"
    ELSE IF op = "undoPoint" /\ Len(History(m)) = 0
         THEN "No points to undo"
    ELSE ""

\* C24: the error of every startMatch, addPoint, undoPoint and endMatch call
\* is that of the first failing check in the order match lookup, role check,
\* status check, data check, and a call that passes all four is accepted.
C24_CheckOrder ==
    last.op \in Mutations
    => last.err = FirstFailure(last.op, last.caller, last.matchId, pre)

\* startMatch on a match that was ended and has no scoringFormat was refused
\* for its status, not for the missing format
C24_Witness ==
    /\ last.op = "startMatch"
    /\ last.caller \in OrgRoles
    /\ last.matchId = TheMatch
    /\ pre.status = "completed"
    /\ pre.scoringFormat = "none"
    /\ last.err = "Match has already started or completed"

----------------------------------------------------------------------------
\* C25: whenever the last pointHistory entry belongs to a set before
\* currentSet, setHistory is non-empty and its last entry is the set that
\* point closed, so no call is rejected with "Cannot undo: set history
\* inconsistent".
C25_SetHistoryConsistent ==
    /\ last.err # "Cannot undo: set history inconsistent"
    /\ (IsPresent(score) /\ Len(History(Match)) > 0
        /\ History(Match)[Len(History(Match))].setNumber < Val(score).currentSet)
       => LET s == Val(score)
              tail == History(Match)[Len(History(Match))]
          IN /\ Len(s.setHistory) > 0
             /\ tail.setNumber = Len(s.setHistory)
             /\ s.setHistory[Len(s.setHistory)] = After(tail)

\* a point has just closed a set and opened the next one: the last log entry
\* is of the closed set, and an undo would be accepted
C25_Witness ==
    /\ PointScored
    /\ SetClosed
    /\ status = "in_progress"
    /\ History(Match)[Len(History(Match))].setNumber < Val(score).currentSet
    /\ UndoAccepted("scorer")

\* C26: currentSet is at most maxSets (5 standard, 3 avp_beach) and no side
\* has more than setsToWin sets; while the match is in progress both sides
\* have fewer than setsToWin sets.
C26_SetBounds ==
    IsPresent(score)
    => LET s == Val(score) IN
       /\ s.currentSet >= 1
       /\ s.currentSet <= MaxSetsOf(scoringFormat)
       /\ \A side \in Sides : s.setsWon[side] <= SetsToWinOf(scoringFormat)
       /\ status = "in_progress"
          => \A side \in Sides : s.setsWon[side] < SetsToWinOf(scoringFormat)

\* a standard match was decided 3-2 in set 5 and no sixth set was opened
C26_Witness ==
    /\ PointScored
    /\ scoringFormat = "standard"
    /\ status = "completed"
    /\ Val(score).currentSet = 5
    /\ Val(score).setsWon.home + Val(score).setsWon.away = 5

\* a side has the sets that decide the match
Decided ==
    \E side \in Sides : Val(score).setsWon[side] >= SetsToWinOf(scoringFormat)

\* C27: while the match is in progress currentSet is setHistory.length + 1;
\* in a match completed by a deciding point currentSet is setHistory.length.
C27_CurrentSetVsSetHistory ==
    IsPresent(score)
    => /\ status = "in_progress"
          => Val(score).currentSet = Len(Val(score).setHistory) + 1
       /\ (status = "completed" /\ Decided)
          => Val(score).currentSet = Len(Val(score).setHistory)
       /\ (PointScored /\ status = "completed") => Decided

\* avp_beach decided 2-0: currentSet 2 with two recorded sets
C27_Witness ==
    /\ PointScored
    /\ scoringFormat = "avp_beach"
    /\ status = "completed"
    /\ Val(score).currentSet = 2
    /\ Len(Val(score).setHistory) = 2
    /\ pre.status = "in_progress"
    /\ Val(pre.score).currentSet = Len(Val(pre.score).setHistory) + 1

RECURSIVE PointsIn(_)
\* the points of the recorded sets
PointsIn(setHistory) ==
    IF Len(setHistory) = 0 THEN 0
    ELSE setHistory[1].home + setHistory[1].away + PointsIn(Tail(setHistory))

\* C28: while the match is in progress, pointHistory has as many entries as
\* there are points on the board: home + away + the points of all recorded
\* sets.
C28_LogLengthIsPointCount ==
    (status = "in_progress" /\ IsPresent(score))
    => Len(History(Match))
         = Val(score).home + Val(score).away + PointsIn(Val(score).setHistory)

\* a point was undone inside the second set or later of a match in progress
C28_Witness ==
    /\ AcceptedCall("undoPoint")
    /\ status = "in_progress"
    /\ Val(score).currentSet = Val(pre.score).currentSet
    /\ Len(Val(score).setHistory) >= 1
    /\ Val(score).home + Val(score).away >= 1
    /\ Len(History(Match)) = Len(History(pre)) - 1

\* C29: while the match is in progress the open set's score is not a won
\* set at the threshold of currentSet, and every recorded set was closed by
\* the first point that won it: its winner has exactly the threshold or
\* leads by exactly 2.
C29_ClosedByFirstWinningPoint ==
    IsPresent(score)
    => LET s == Val(score) IN
       /\ status = "in_progress"
          => ~SetIsWon(s.home, s.away, ThresholdOf(scoringFormat, s.currentSet))
       /\ \A i \in 1..Len(s.setHistory) :
            LET hi == IF s.setHistory[i].home > s.setHistory[i].away
                      THEN s.setHistory[i].home ELSE s.setHistory[i].away
                lo == IF s.setHistory[i].home > s.setHistory[i].away
                      THEN s.setHistory[i].away ELSE s.setHistory[i].home
            IN \/ hi = ThresholdOf(scoringFormat, i) /\ hi - lo >= 2
               \/ hi > ThresholdOf(scoringFormat, i) /\ hi - lo = 2

\* a point was undone at set point and the set stays open one point short
C29_Witness ==
    /\ AcceptedCall("undoPoint")
    /\ status = "in_progress"
    /\ Val(score).currentSet = Val(pre.score).currentSet
    /\ Val(pre.score).home = ThresholdOf(scoringFormat, Val(score).currentSet)
    /\ Val(pre.score).away = Val(pre.score).home - 1
    /\ Val(score).home = Val(pre.score).home - 1
    /\ Val(score).away = Val(score).home

----------------------------------------------------------------------------
\* the sides of a log, in order
SidesOf(h) == [i \in 1..Len(h) |-> h[i].side]

\* a fresh match of the format, started, with one addPoint per side of the list
Replay(format, sides) ==
    PlayAll(startMatch(Created(format), "scorer", TheMatch).m, sides, 1, Len(sides))

\* C30: in every state reached by startMatch, addPoint and undoPoint calls
\* in any order, score, pointHistory and status are those of a fresh match of
\* the same scoringFormat that is started and given one addPoint for each
\* entry's side of pointHistory in order.
C30_ScoreIsFunctionOfLog ==
    IsPresent(score)
    => LET replay == Replay(scoringFormat, SidesOf(History(Match))) IN
       /\ replay.score = score
       /\ replay.pointHistory = pointHistory
       /\ replay.status = status

\* avp_beach at 1-1 in sets: the last point of set 2 was undone from set 3,
\* then home scored twice; the log of set 2 now ends away, home, home
C30_Witness ==
    /\ PointScored
    /\ steps = 3
    /\ scoringFormat = "avp_beach"
    /\ Val(score).currentSet = 2
    /\ Val(score).home = 21 /\ Val(score).away = 20
    /\ Len(History(Match)) >= 3
    /\ History(Match)[Len(History(Match)) - 2] =
         [side |-> "away", setNumber |-> 2, homeScore |-> 19, awayScore |-> 19]
    /\ History(Match)[Len(History(Match)) - 1].side = "home"
    /\ History(Match)[Len(History(Match))].side = "home"

====
